---- MODULE Spec2Model ----
(***************************************************************************)
(* A model of the AutomationAgents integrations (src/agents):              *)
(*   - the mood-playlist synthesis of SpotifyAgent.create_mood_playlist,   *)
(*     stepped from one remote call to the next (specification Spec);      *)
(*   - the AI gateway, the public operations, the AI-assisted pipelines   *)
(*     and the Agent contract of the three integrations (specification     *)
(*     SpecAgents);                                                        *)
(*   - the authentication of the mail agent and the provider calls its     *)
(*     reads make as time passes (specification SpecAuth).                 *)
(* Strings are sequences of one-character strings, so that strip, split,   *)
(* startswith, lower and number formatting are computed, not assumed.      *)
(***************************************************************************)
EXTENDS Integers, Sequences, FiniteSets, TLC

\* ------------------------------------------------------------------ bounds
\* The last tick of the clock.
MaxClock == 4
\* The ticks an access token lives after it was issued or refreshed.
TokenLife == 2
\* Longest AI answer, in lines, that a synthesis run reads.
MaxLines == 10
\* The small requested playlist size (see Limits).
MaxSmallLimit == 2
\* A search answers with a track already found only while the run holds at
\* most this many ids.
MaxRepeats == 1
\* Most tracks the provider returns for one recommendation request.
MaxRecs == 2

\* ------------------------------------------------------- program constants
\* create_mood_playlist: "if len(track_ids) < 10".
MinAiTracks == 10

\* ---------------------------------------------------------------- strings
Range(s) == {s[i] : i \in 1..Len(s)}

Max2(a, b) == IF a >= b THEN a ELSE b

Min2(a, b) == IF a <= b THEN a ELSE b

\* str.strip() with no argument strips whitespace.
Whitespace == {" ", "\t"}

\* str.lstrip(chars): drop the longest prefix made of characters of chars.
RECURSIVE LStrip(_, _)
LStrip(s, chars) ==
    IF s # <<>> /\ Head(s) \in chars THEN LStrip(Tail(s), chars) ELSE s

\* str.rstrip(chars).
RECURSIVE RStrip(_, _)
RStrip(s, chars) ==
    IF s # <<>> /\ s[Len(s)] \in chars
    THEN RStrip(SubSeq(s, 1, Len(s) - 1), chars)
    ELSE s

\* str.strip(chars).
Strip(s, chars) == RStrip(LStrip(s, chars), chars)

\* str.startswith(prefix).
StartsWith(s, prefix) ==
    Len(s) >= Len(prefix) /\ SubSeq(s, 1, Len(prefix)) = prefix

\* Positions at which sub occurs in s.
Occurrences(s, sub) ==
    {i \in 1..(Len(s) - Len(sub) + 1) : SubSeq(s, i, i + Len(sub) - 1) = sub}

\* "sub in s".
Contains(s, sub) == Occurrences(s, sub) # {}

\* The smallest member of a non-empty set of integers.
MinOf(S) == CHOOSE x \in S : \A y \in S : x <= y

\* s.split(sep, 1) for a separator that occurs in s: <<before, after>>.
SplitOnce(s, sep) ==
    LET i == MinOf(Occurrences(s, sep))
    IN  <<SubSeq(s, 1, i - 1), SubSeq(s, i + Len(sep), Len(s))>>

\* s.split('\n'): the lines of s; a string without newline is one line.
RECURSIVE SplitLines(_)
SplitLines(s) ==
    IF Contains(s, <<"\n">>)
    THEN LET p == SplitOnce(s, <<"\n">>) IN <<p[1]>> \o SplitLines(p[2])
    ELSE <<s>>

\* The decimal digits of a natural number, as str(n) writes them.
DigitChar(d) == <<"0", "1", "2", "3", "4", "5", "6", "7", "8", "9">>[d + 1]

RECURSIVE Digits(_)
Digits(n) ==
    IF n < 10 THEN <<DigitChar(n)>> ELSE Digits(n \div 10) \o <<DigitChar(n % 10)>>

\* str.lower() on the letters the moods of the model use.
UpperToLower ==
    [c \in {"C", "H", "I", "L", "S", "A", "D", "Z", "E", "N"} |->
        CASE c = "C" -> "c" [] c = "H" -> "h" [] c = "I" -> "i"
          [] c = "L" -> "l" [] c = "S" -> "s" [] c = "A" -> "a"
          [] c = "D" -> "d" [] c = "Z" -> "z" [] c = "E" -> "e"
          [] c = "N" -> "n"]

Lower(s) ==
    [i \in 1..Len(s) |-> IF s[i] \in DOMAIN UpperToLower THEN UpperToLower[s[i]] ELSE s[i]]

\* The absent value.
None == [kind |-> "none"]

\* ------------------------------------------------- calls and exceptions
\* A call returns a value or raises an exception, named by its class.
Returned(v) == [kind |-> "returned", value |-> v]

Raised(e) == [kind |-> "raised", error |-> e]

\* "except <handler>": Exception catches every class; a named class catches
\* that class alone (none of the classes here derives from another).
Caught(handler, e) == handler = "Exception" \/ handler = e

\* try: body / except <handler>: return on_error
Try(handler, body, on_error) ==
    IF body.kind = "raised" /\ Caught(handler, body.error)
    THEN Returned(on_error)
    ELSE body

\* A provider call answers with a well-formed payload ("ok"), with a payload
\* that lacks a key the code reads ("malformed"), or raises ("raise").
\* Reading the payload raises KeyError when it is malformed.
ReadPayload(answer, value) ==
    CASE answer.kind = "raise" -> Raised(answer.error)
      [] answer.kind = "malformed" -> Raised("KeyError")
      [] OTHER -> Returned(value)

\* ------------------------------------------------------------- AI gateway
\* What requests.post can do: raise, or return a response with a status and
\* a body.  A body is JSON with a 'response' text, JSON without that key, or
\* not JSON at all; "json_lines" is a well-formed answer whose text the
\* synthesis reads one line at a time (see SearchLine).
ExceptionMessage == <<"r", "e", "f", "u", "s", "e", "d">>

FailureStatuses == {201, 404, 500}

\* A body response.json() raises on, with the text of that exception.
NotJson == [kind |-> "not_json", error |-> <<"J", "S", "O", "N">>]

\* A JSON body without the key 'response', with the text of the KeyError.
NoResponseKey == [kind |-> "no_key", error |-> <<"'", "r", "e", "s", "p", "o", "n", "s", "e", "'">>]

AiErrorPrefix == <<"A", "I", " ", "E", "r", "r", "o", "r", ":", " ">>

\* A mutant of BaseAskAi: no try block around the request.
BaseAskAiUnguarded(http) ==
    IF http.kind = "exception"
    THEN Raised(http.message)
    ELSE IF http.status = 200
         THEN IF http.body.kind = "json"
              THEN Returned(http.body.response)
              ELSE Raised(http.body.error)
         ELSE Returned(<<"A", "I", " ", "r", "e", "q", "u", "e", "s", "t", " ",
                         "f", "a", "i", "l", "e", "d", " ", "w", "i", "t", "h",
                         " ", "s", "t", "a", "t", "u", "s", " ">>
                       \o Digits(http.status))

\* BaseAgent.ask_ai, given what requests.post did.  response.json() and
\* ['response'] run inside the try block, so a body that is not JSON or
\* lacks the key ends in the except branch.
BaseAskAi(http) ==
    IF http.kind = "exception"
    THEN Returned(AiErrorPrefix \o http.message)
    ELSE IF http.status = 200
         THEN IF http.body.kind = "json"
              THEN Returned(http.body.response)
              ELSE Returned(AiErrorPrefix \o http.body.error)
         ELSE Returned(<<"A", "I", " ", "r", "e", "q", "u", "e", "s", "t", " ",
                         "f", "a", "i", "l", "e", "d", " ", "w", "i", "t", "h",
                         " ", "s", "t", "a", "t", "u", "s", " ">>
                       \o Digits(http.status))

\* NotionAIAgent.ask_ai: the same shape, with "Error: <status>".
NotionAskAi(http) ==
    IF http.kind = "exception"
    THEN Returned(AiErrorPrefix \o http.message)
    ELSE IF http.status = 200
         THEN IF http.body.kind = "json"
              THEN Returned(http.body.response)
              ELSE Returned(AiErrorPrefix \o http.body.error)
         ELSE Returned(<<"E", "r", "r", "o", "r", ":", " ">> \o Digits(http.status))

\* ----------------------------------------------------- Stage 1 line parsing
\* The two prefixes of startswith(('-', <second>)): the second is the
\* three-character string the source file holds, U+201A U+00C4 U+00A2.
BulletPrefixes == { <<"-">>, <<"U+201A", "U+00C4", "U+00A2">> }

\* The character set of lstrip('-<second>').
BulletChars == {"-", "U+201A", "U+00C4", "U+00A2"}

BySeparator == <<" ", "b", "y", " ">>

\* line.strip().lstrip(bullets).strip()
SongInfo(line) == Strip(LStrip(Strip(line, Whitespace), BulletChars), Whitespace)

\* The two tests a line passes before a search is issued for it.
Qualifies(line) ==
    /\ \E b \in BulletPrefixes : StartsWith(Strip(line, Whitespace), b)
    /\ Contains(SongInfo(line), BySeparator)

\* Lines a model answer is made of.
LineSamples ==
    { <<"-", " ", "\"", "a", "\"", " ", "b", "y", " ", "b">>,            \* - "a" by b
      <<" ", " ", "-", " ", "c", " ", "b", "y", " ", "d", " ", " ">>,    \*   - c by d
      <<"U+201A", "U+00C4", "U+00A2", " ", "a", " ", "b", "y", " ", "b">>,
      <<"U+2022", " ", "a", " ", "b", "y", " ", "b">>,                   \* a real bullet
      <<"1", ".", " ", "\"", "a", "\"", " ", "b", "y", " ", "b">>,       \* 1. "a" by b
      <<"-", " ", "a", " ", "b">>,                                       \* - a b
      <<"-", " ", "a", " ", "b", "y", " ", "b", " ", "b", "y", " ", "c">>,
      <<>> }

\* ------------------------------------------------------ mood -> genre table
Moods ==
    { <<"C", "h", "i", "l", "l">>,      \* "Chill": a table mood, not in lower case
      <<"z", "e", "n">> }               \* "zen": not in the table

genre_map ==
    [m \in { <<"h", "a", "p", "p", "y">>, <<"s", "a", "d">>,
             <<"e", "n", "e", "r", "g", "e", "t", "i", "c">>,
             <<"c", "h", "i", "l", "l">>, <<"f", "o", "c", "u", "s">> } |->
        CASE m = <<"h", "a", "p", "p", "y">> -> <<"pop", "dance", "funk">>
          [] m = <<"s", "a", "d">> -> <<"indie", "blues", "singer-songwriter">>
          [] m = <<"e", "n", "e", "r", "g", "e", "t", "i", "c">>
                -> <<"rock", "electronic", "hip-hop">>
          [] m = <<"c", "h", "i", "l", "l">> -> <<"ambient", "jazz", "indie-folk">>
          [] m = <<"f", "o", "c", "u", "s">> -> <<"classical", "ambient", "instrumental">>]

\* A mutant of GenresFor: the mood is looked up as it was given.
GenresForExact(m) ==
    IF m \in DOMAIN genre_map THEN genre_map[m] ELSE <<"pop">>

\* genre_map.get(mood.lower(), ['pop'])
GenresFor(m) ==
    IF Lower(m) \in DOMAIN genre_map THEN genre_map[Lower(m)] ELSE <<"pop">>

\* ------------------------------------------------------------------- state
VARIABLES
    pc,          \* where create_mood_playlist stands
    mood,        \* its argument mood
    limit,       \* its argument limit
    gateway,     \* what requests.post did for this run's ask_ai call
    n_lines,     \* lines of the AI answer read so far, while the loop runs
    n_qual,      \* of these, the lines that passed both tests
    track_ids,   \* the local list track_ids
    ai_track_ids,\* the list _get_ai_track_suggestions returned
    line,        \* the loop variable of "for line in lines"
    trail,       \* what the provider answered in this run: the first hit of each
                 \* search in line order, the recommendations, the calls that raised
    calls,       \* how often each remote primitive was called in this run
    rec_args,    \* the arguments of the get_recommendations call
    playlist,    \* what create_playlist returned
    added,       \* the arguments and outcome of the add_tracks_to_playlist call
    result,      \* what create_mood_playlist returned
    op,          \* the public operation called last, with its agent
    env,         \* what the provider and the gateway did during that call
    ret,         \* how that call ended: a value returned, or an exception raised
    trace,       \* the gateway calls and log lines of that call, when it was a
                 \* call of an AI-assisted pipeline; None after another operation
    now,         \* the time
    token_file,  \* the credentials the mail agent's token file holds, if any
    creds,       \* the credentials the mail agent's service was built with
    refreshed_at,\* when creds.refresh was last called
    last_call    \* the last provider call a read made: when, and with which creds

vars ==
    <<pc, mood, limit, gateway, n_lines, n_qual, track_ids, ai_track_ids, line, trail,
      calls, rec_args, playlist, added, result, op, env, ret, trace,
      now, token_file, creds, refreshed_at, last_call>>

synthVars ==
    <<pc, mood, limit, gateway, n_lines, n_qual, track_ids, ai_track_ids, line, trail,
      calls, rec_args, playlist, added, result>>

agentVars == <<op, env, ret, trace>>

authVars == <<now, token_file, creds, refreshed_at, last_call>>

\* No refresh yet.
Never == -1

\* The requested sizes: none, a small one that a Stage 1 yield can reach or
\* pass, and one above the Stage 1 threshold.
Limits == {0, MaxSmallLimit, MinAiTracks + 1}

PlaylistIds == {"pl1", "pl2"}

\* Track ids are opaque; they are numbered in the order the run first meets
\* them, so a provider answer is "a track already met" or "the next new one".
\* The track found first stands for the tracks already met.
KnownTracks(ids) == IF ids = <<>> THEN {} ELSE {ids[1]}

NewTrack(ids) == Cardinality(Range(ids)) + 1

Init ==
    /\ pc = "idle"
    /\ mood = <<>>
    /\ limit = 0
    /\ gateway = None
    /\ n_lines = 0
    /\ n_qual = 0
    /\ track_ids = <<>>
    /\ ai_track_ids = <<>>
    /\ line = None
    /\ trail = [hits |-> <<>>, recs |-> None, failed |-> {}]
    /\ calls = [ask_ai |-> 0, search |-> 0, recs |-> 0, create |-> 0, add |-> 0]
    /\ rec_args = None
    /\ playlist = None
    /\ added = None
    /\ result = None
    /\ op = None
    /\ env = None
    /\ ret = None
    /\ trace = None
    /\ now = 0
    /\ token_file = None
    /\ creds = None
    /\ refreshed_at = Never
    /\ last_call = None

\* ------------------------------------------------------ provider primitives
\* SpotifyAgent.search_tracks: the ids of the tracks found, [] when the
\* provider call or the reading of its payload raised.
search_tracks(provider) ==
    Try("Exception", ReadPayload(provider, IF provider.kind = "ok" THEN provider.items ELSE <<>>),
        <<>>)

SpotifyRaise == [kind |-> "raise", error |-> "SpotifyException"]

\* What sp.search can answer with limit=1.
SearchAnswers(ids) ==
    {SpotifyRaise, [kind |-> "ok", items |-> <<>>]}
    \cup {[kind |-> "ok", items |-> <<t>>] : t \in KnownTracks(ids) \cup {NewTrack(ids)}}

\* SpotifyAgent.get_recommendations(seed_genres, limit): the ids of the
\* recommended tracks, [] when the provider call raised.
get_recommendations(provider) ==
    Try("Exception", ReadPayload(provider, IF provider.kind = "ok" THEN provider.tracks ELSE <<>>),
        <<>>)

PlaylistUrl(id) == <<"https://open.spotify.com/playlist/", id>>

\* SpotifyAgent.create_playlist: the playlist record, or an error record
\* that carries str(e).
create_playlist(provider) ==
    LET body == ReadPayload(provider,
                    IF provider.kind = "ok"
                    THEN [id |-> provider.id, url |-> PlaylistUrl(provider.id)]
                    ELSE None)
    IN  Try("Exception", body,
            [status |-> "error", error |-> IF body.kind = "raised" THEN body.error ELSE ""])

\* A mutant of add_tracks_to_playlist: True whatever the provider did.
AddTracksAlwaysTrue(provider) == Returned(TRUE)

\* SpotifyAgent.add_tracks_to_playlist: True, or False when the call raised.
add_tracks_to_playlist(provider) ==
    Try("Exception", ReadPayload(provider, TRUE), FALSE)

\* track_ids[:limit]
PySlicePrefix(s, k) ==
    IF k >= 0 THEN SubSeq(s, 1, Min2(k, Len(s))) ELSE SubSeq(s, 1, Max2(0, Len(s) + k))

\* What sp.recommendations can answer when asked for n tracks: an error, or
\* up to n tracks (up to MaxRecs here), each one already met or new; asked
\* for fewer than one track the provider refuses or applies its own count.
RecLists(ids) ==
    LET k == Cardinality(Range(ids))
        cand == KnownTracks(ids) \cup ((k + 1)..(k + MaxRecs))
        all == UNION {[1..n -> cand] : n \in 0..MaxRecs}
    IN  {s \in all :
            \A i \in 1..Len(s) :
                s[i] > k =>
                    s[i] <= k + 1 + Cardinality({s[j] : j \in 1..(i - 1)} \ (1..k))}

RecAnswers(n, ids) ==
    {SpotifyRaise}
    \cup {[kind |-> "ok", tracks |-> s] :
            s \in {r \in RecLists(ids) : n >= 1 => Len(r) <= n}}

CreateAnswers == {SpotifyRaise} \cup {[kind |-> "ok", id |-> p] : p \in PlaylistIds}

AddAnswers == {[kind |-> "ok"], SpotifyRaise}

\* The gateway outcomes of a synthesis run.
GatewayOutcomes ==
    {[kind |-> "response", status |-> 200, body |-> [kind |-> "json_lines"]],
     [kind |-> "response", status |-> 200, body |-> NotJson]}
    \cup {[kind |-> "response", status |-> st, body |-> NotJson] : st \in FailureStatuses}
    \cup {[kind |-> "exception", message |-> ExceptionMessage]}

\* The lines of the answer when the gateway failed: ai_suggestions.split('\n')
\* of the failure string ask_ai returned.
FailureLines(http) == SplitLines(BaseAskAi(http).value)

IsModelAnswer(http) ==
    http.kind = "response" /\ http.status = 200 /\ http.body.kind = "json_lines"

\* The lines that can come next in the answer being read.
NextLines ==
    IF IsModelAnswer(gateway)
    THEN IF n_lines < MaxLines THEN LineSamples ELSE {}
    ELSE IF n_lines < Len(FailureLines(gateway))
         THEN {FailureLines(gateway)[n_lines + 1]}
         ELSE {}

\* ------------------------------------------------- create_mood_playlist
\* "if len(track_ids) < 10"
NeedsFallbackAlways(ids) == TRUE

NeedsFallback(ids) == Len(ids) < MinAiTracks

\* A mutant of Needed: the shortfall is taken from the Stage 1 threshold.
NeededToThreshold(l, ids) == MinAiTracks - Len(ids)

\* "needed = limit - len(track_ids)"
Needed(l, ids) == l - Len(ids)

\* A mutant of AppendMissing: a missing id is put in front of the list.
RECURSIVE PrependMissing(_, _)
PrependMissing(ids, recs) ==
    IF recs = <<>> THEN ids
    ELSE PrependMissing(IF Head(recs) \in Range(ids) THEN ids ELSE <<Head(recs)>> \o ids,
                        Tail(recs))

\* "for rec_id in genre_recs: if rec_id not in track_ids: track_ids.append(rec_id)"
RECURSIVE AppendMissing(_, _)
AppendMissing(ids, recs) ==
    IF recs = <<>> THEN ids
    ELSE AppendMissing(IF Head(recs) \in Range(ids) THEN ids ELSE Append(ids, Head(recs)),
                       Tail(recs))

\* "if 'id' not in playlist"
CreationFailedNever(pl) == FALSE

CreationFailed(pl) == "id" \notin DOMAIN pl

\* "final_tracks = track_ids[:limit]"
FinalTracksAll(ids, l) == ids

FinalTracks(ids, l) == PySlicePrefix(ids, l)

\* "if not track_ids"
NoTracksFoundNever(ids) == FALSE

NoTracksFound(ids) == ids = <<>>

\* "playlist['tracks_added'] = len(final_tracks)", whatever the add call returned
TracksAddedIfAdded(final_tracks, ok) == IF ok THEN Len(final_tracks) ELSE 0

TracksAdded(final_tracks, ok) == Len(final_tracks)

Bump(c, f) == [c EXCEPT ![f] = @ + 1]

\* The trail after the provider answered the call of a primitive: the first
\* track of a search answer, the tracks of a recommendation answer, and the
\* primitive's name when the provider raised.
Answered(t, primitive, provider) ==
    [hits |-> IF primitive = "search" /\ provider.kind = "ok" /\ provider.items # <<>>
              THEN Append(t.hits, provider.items[1])
              ELSE t.hits,
     recs |-> IF primitive = "recs"
              THEN [tracks |-> IF provider.kind = "ok" THEN provider.tracks ELSE <<>>]
              ELSE t.recs,
     failed |-> IF provider.kind = "raise" THEN t.failed \cup {primitive} ELSE t.failed]

\* create_mood_playlist(mood, limit) is called.
Start ==
    /\ pc = "idle"
    /\ \E m \in Moods, l \in Limits :
        /\ mood' = m
        /\ limit' = l
    /\ pc' = "ask_ai"
    /\ UNCHANGED <<gateway, n_lines, n_qual, track_ids, ai_track_ids, line, trail, calls, rec_args, playlist, added, result>>
    /\ UNCHANGED <<agentVars, authVars>>

\* _get_ai_track_suggestions: "ai_suggestions = self.ask_ai(prompt)".
AskAI ==
    /\ pc = "ask_ai"
    /\ \E http \in GatewayOutcomes : gateway' = http
    /\ calls' = Bump(calls, "ask_ai")
    /\ pc' = "parse"
    /\ UNCHANGED <<mood, limit, n_lines, n_qual, track_ids, ai_track_ids, line, trail, rec_args, playlist, added, result>>
    /\ UNCHANGED <<agentVars, authVars>>

\* One iteration of "for line in lines" on a line that fails a test.
SkipLine ==
    /\ pc = "parse"
    /\ \E l \in NextLines : ~Qualifies(l) /\ line' = l
    /\ n_lines' = n_lines + 1
    /\ UNCHANGED <<pc, mood, limit, gateway, n_qual, track_ids, ai_track_ids, trail, calls, rec_args, playlist, added, result>>
    /\ UNCHANGED <<agentVars, authVars>>

\* One iteration on a line that passes both tests: one search, and the id of
\* its first hit, if any, is appended.
SearchLine ==
    /\ pc = "parse"
    /\ \E l \in NextLines : Qualifies(l) /\ line' = l
    /\ \E provider \in SearchAnswers(track_ids) :
        LET search_results == search_tracks(provider).value
        IN  /\ search_results # <<>> /\ search_results[1] \in Range(track_ids)
                => Len(track_ids) <= MaxRepeats
            /\ track_ids' = IF search_results # <<>>
                            THEN Append(track_ids, search_results[1])
                            ELSE track_ids
            /\ trail' = Answered(trail, "search", provider)
    /\ n_lines' = n_lines + 1
    /\ n_qual' = n_qual + 1
    /\ calls' = Bump(calls, "search")
    /\ UNCHANGED <<pc, mood, limit, gateway, ai_track_ids, rec_args, playlist, added, result>>
    /\ UNCHANGED <<agentVars, authVars>>

\* The loop ends (split('\n') yields at least one line) and
\* _get_ai_track_suggestions returns track_ids; its loop state is gone.
EndOfLines ==
    /\ pc = "parse"
    /\ n_lines >= 1
    /\ IF IsModelAnswer(gateway) THEN TRUE ELSE n_lines = Len(FailureLines(gateway))
    /\ ai_track_ids' = track_ids
    /\ line' = None
    /\ n_lines' = 0
    /\ n_qual' = 0
    /\ pc' = "stage2"
    /\ UNCHANGED <<mood, limit, gateway, track_ids, trail, calls, rec_args, playlist, added, result>>
    /\ UNCHANGED <<agentVars, authVars>>

\* Step 2, taken: the genre fallback.
GenreFallback ==
    /\ pc = "stage2"
    /\ NeedsFallback(track_ids)
    /\ \E provider \in RecAnswers(Needed(limit, track_ids), track_ids) :
        /\ track_ids' = AppendMissing(track_ids, get_recommendations(provider).value)
        /\ trail' = Answered(trail, "recs", provider)
    /\ rec_args' = [seed_genres |-> GenresFor(mood), limit |-> Needed(limit, track_ids)]
    /\ calls' = Bump(calls, "recs")
    /\ pc' = "stage3"
    /\ UNCHANGED <<mood, limit, gateway, n_lines, n_qual, ai_track_ids, line, playlist, added, result>>
    /\ UNCHANGED <<agentVars, authVars>>

\* Step 2, not taken.
NoFallback ==
    /\ pc = "stage2"
    /\ ~NeedsFallback(track_ids)
    /\ pc' = "stage3"
    /\ UNCHANGED <<mood, limit, gateway, n_lines, n_qual, track_ids, ai_track_ids, line, trail, calls, rec_args, playlist, added, result>>
    /\ UNCHANGED <<agentVars, authVars>>

\* "if not track_ids: return {'status': 'error', 'error': 'No tracks found'}"
NoTracks ==
    /\ pc = "stage3"
    /\ NoTracksFound(track_ids)
    /\ result' = [status |-> "error", error |-> "No tracks found"]
    /\ pc' = "done"
    /\ UNCHANGED <<mood, limit, gateway, n_lines, n_qual, track_ids, ai_track_ids, line, trail, calls, rec_args, playlist, added>>
    /\ UNCHANGED <<agentVars, authVars>>

\* Step 3: create_playlist, and the early return when it holds no id.
CreatePlaylist ==
    /\ pc = "stage3"
    /\ ~NoTracksFound(track_ids)
    /\ \E provider \in CreateAnswers :
        LET pl == create_playlist(provider).value
        IN  /\ playlist' = pl
            /\ trail' = Answered(trail, "create", provider)
            /\ IF CreationFailed(pl)
               THEN result' = pl /\ pc' = "done"
               ELSE result' = result /\ pc' = "add"
    /\ calls' = Bump(calls, "create")
    /\ UNCHANGED <<mood, limit, gateway, n_lines, n_qual, track_ids, ai_track_ids, line, rec_args, added>>
    /\ UNCHANGED <<agentVars, authVars>>

\* Step 4: add_tracks_to_playlist, then tracks_added is set and the playlist
\* record is returned.
AddTracks ==
    /\ pc = "add"
    /\ \E provider \in AddAnswers :
        LET final_tracks == FinalTracks(track_ids, limit)
            ok == add_tracks_to_playlist(provider).value
            pid == IF "id" \in DOMAIN playlist THEN playlist.id ELSE "KeyError"
            done == [id |-> pid,
                     url |-> IF "url" \in DOMAIN playlist THEN playlist.url ELSE "KeyError",
                     tracks_added |-> TracksAdded(final_tracks, ok)]
        IN  /\ added' = [playlist_id |-> pid, track_ids |-> final_tracks,
                         ok |-> ok]
            /\ playlist' = done
            /\ result' = done
            /\ trail' = Answered(trail, "add", provider)
    /\ calls' = Bump(calls, "add")
    /\ pc' = "done"
    /\ UNCHANGED <<mood, limit, gateway, n_lines, n_qual, track_ids, ai_track_ids, line, rec_args>>
    /\ UNCHANGED <<agentVars, authVars>>

Next ==
    \/ Start
    \/ AskAI
    \/ SkipLine
    \/ SearchLine
    \/ EndOfLines
    \/ GenreFallback
    \/ NoFallback
    \/ NoTracks
    \/ CreatePlaylist
    \/ AddTracks

Spec == Init /\ [][Next]_vars

\* ========================================================= the integrations
\* The public operations of the three integrations, each one call from the
\* shell: op, env and ret record the call, what the provider and the gateway
\* did during it, and how it ended.
Agents == {"gmail", "notion", "spotify"}

\* The exception classes a provider client raises: for a non-2xx answer, and
\* for a provider that cannot be reached.
ProviderErrors(agent) ==
    CASE agent = "gmail" -> {"HttpError", "ServerNotFoundError"}
      [] agent = "spotify" -> {"SpotifyException", "ConnectionError"}
      [] agent = "notion" -> {"APIResponseError", "RequestTimeoutError"}

ProviderRaises(agent) == {[kind |-> "raise", error |-> e] : e \in ProviderErrors(agent)}

\* What a provider read can answer: a payload, a payload that lacks a key
\* the code reads, or an exception.
ReadAnswers(agent) == {[kind |-> "ok"], [kind |-> "malformed"]} \cup ProviderRaises(agent)

\* What requests.post can do for an ask_ai call made on its own.
AiTexts == { <<>>, <<"o", "k">> }

HttpOutcomes ==
    {[kind |-> "response", status |-> 200, body |-> [kind |-> "json", response |-> t]] :
        t \in AiTexts}
    \cup {[kind |-> "response", status |-> 200, body |-> b] : b \in {NotJson, NoResponseKey}}
    \cup {[kind |-> "response", status |-> st, body |-> NotJson] : st \in FailureStatuses}
    \cup {[kind |-> "exception", message |-> ExceptionMessage]}

\* ------------------------------------------------------------------- mail
\* "'body': body[:500]"
BodyLimit == 500

\* A body one character longer than what a summary keeps.
LongBody == [i \in 1..(BodyLimit + 1) |-> "x"]

\* Provider messages; body data is held decoded.
WellFormedMessages ==
    { [id |-> "m4", snippet |-> "xx",
       payload |-> [headers |-> << [name |-> "Subject", value |-> "long"] >>,
                    body |-> [data |-> LongBody]]],
      [id |-> "m1", snippet |-> "hi",
       payload |-> [headers |-> << [name |-> "Subject", value |-> "hello"],
                                   [name |-> "From", value |-> "ann"] >>,
                    body |-> [data |-> <<"h", "i">>]]],
      [id |-> "m2", snippet |-> "yo",
       payload |-> [headers |-> <<>>,
                    parts |-> << [mimeType |-> "text/html", body |-> [data |-> <<"<", "p", ">">>]],
                                 [mimeType |-> "text/plain", body |-> [data |-> <<"y", "o">>]] >>]] }

\* A message payload without 'payload'.
MalformedMessage == [id |-> "m3", snippet |-> ""]

\* next((h['value'] for h in headers if h['name'] == name), default)
HeaderValue(headers, name, default) ==
    LET hits == {i \in 1..Len(headers) : headers[i].name = name}
    IN  IF hits = {} THEN default ELSE headers[MinOf(hits)].value

\* GmailAgent._extract_body
extract_body(payload) ==
    IF "parts" \in DOMAIN payload
    THEN LET plain == {i \in 1..Len(payload.parts) : payload.parts[i].mimeType = "text/plain"}
         IN  IF plain = {} THEN <<>> ELSE payload.parts[MinOf(plain)].body.data
    ELSE IF "data" \in DOMAIN payload.body THEN payload.body.data ELSE <<>>

\* A mutant of extract_email_data: the body is kept whole.
ExtractEmailDataWholeBody(message) ==
    IF "payload" \notin DOMAIN message
    THEN Raised("KeyError")
    ELSE Returned([id |-> message.id,
                   subject |-> HeaderValue(message.payload.headers, "Subject", "No Subject"),
                   sender |-> HeaderValue(message.payload.headers, "From", "Unknown"),
                   date |-> HeaderValue(message.payload.headers, "Date", "Unknown"),
                   body |-> extract_body(message.payload),
                   snippet |-> message.snippet])

\* GmailAgent._extract_email_data: message['payload'] raises KeyError on a
\* message without it.
extract_email_data(message) ==
    IF "payload" \notin DOMAIN message
    THEN Raised("KeyError")
    ELSE Returned([id |-> message.id,
                   subject |-> HeaderValue(message.payload.headers, "Subject", "No Subject"),
                   sender |-> HeaderValue(message.payload.headers, "From", "Unknown"),
                   date |-> HeaderValue(message.payload.headers, "Date", "Unknown"),
                   body |-> PySlicePrefix(extract_body(message.payload), BodyLimit),
                   snippet |-> message.snippet])

\* What messages().list().execute() can answer: a list of message ids, or
\* an exception.
MaxMessages == 2

ListAnswers ==
    {[kind |-> "ok", messages |-> SubSeq(<<"m1", "m2", "m3">>, 1, n)] : n \in 0..MaxMessages}
    \cup ProviderRaises("gmail")

\* What messages().get().execute() can answer.
GetAnswers ==
    {[kind |-> "ok", message |-> m] : m \in WellFormedMessages \cup {MalformedMessage}}
    \cup ProviderRaises("gmail")

\* The answers to the gets of one call: one for each message listed.
GetSequences(list_answer) ==
    [1..(IF list_answer.kind = "ok" THEN Len(list_answer.messages) ELSE 0) -> GetAnswers]

\* The try body get_recent_emails and search_emails share: one get and one
\* _extract_email_data per listed message, in order.
RECURSIVE FetchLoop(_, _, _, _)
FetchLoop(messages, get_answers, i, emails) ==
    IF i > Len(messages) THEN Returned(emails)
    ELSE IF get_answers[i].kind = "raise" THEN Raised(get_answers[i].error)
    ELSE LET email_data == extract_email_data(get_answers[i].message)
         IN  IF email_data.kind = "raised" THEN email_data
             ELSE FetchLoop(messages, get_answers, i + 1, Append(emails, email_data.value))

FetchEmails(list_answer, get_answers) ==
    IF list_answer.kind = "raise" THEN Raised(list_answer.error)
    ELSE FetchLoop(list_answer.messages, get_answers, 1, <<>>)

\* GmailAgent.get_recent_emails: "except HttpError".
get_recent_emails(list_answer, get_answers) ==
    Try("HttpError", FetchEmails(list_answer, get_answers), <<>>)

\* GmailAgent.search_emails: "except Exception".
search_emails(list_answer, get_answers) ==
    Try("Exception", FetchEmails(list_answer, get_answers), <<>>)

\* GmailAgent.get_unread_count
get_unread_count(list_answer) ==
    Try("Exception",
        IF list_answer.kind = "raise" THEN Raised(list_answer.error)
        ELSE Returned(Len(list_answer.messages)),
        0)

\* GmailAgent.draft_reply: the AI reply, or "Error drafting reply: <e>".
draft_reply(get_answer, http) ==
    LET body == IF get_answer.kind = "raise" THEN Raised(get_answer.error)
                ELSE IF extract_email_data(get_answer.message).kind = "raised"
                     THEN extract_email_data(get_answer.message)
                     ELSE BaseAskAi(http)
    IN  Try("Exception", body,
            <<"Error drafting reply: ", IF body.kind = "raised" THEN body.error ELSE "">>)

\* ------------------------------------------------------------- workspace
\* NotionAIAgent.get_databases and get_database_pages: the results of the
\* provider's answer, [] on any exception.
get_databases(answer) ==
    Try("Exception", ReadPayload(answer, IF answer.kind = "ok" THEN <<"db1">> ELSE <<>>), <<>>)

\* What notion.databases.query can answer: the pages of the database (none,
\* or some), a payload without 'results', or an exception.
PageAnswers ==
    {[kind |-> "ok", results |-> SubSeq(<<"page1", "page2">>, 1, n)] : n \in 0..2}
    \cup {[kind |-> "malformed"]} \cup ProviderRaises("notion")

get_database_pages(answer) ==
    Try("Exception", ReadPayload(answer, IF answer.kind = "ok" THEN answer.results ELSE <<>>), <<>>)

\* ------------------------------------------------- AI-assisted pipelines
\* One line of the agent's logger: log_action(action, details) writes an
\* info line naming the action, with the cardinality its details hold, if
\* any; logger.error writes an error line.
Count(n) == [n |-> n]

LogAction(action, cardinality) ==
    [level |-> "info", action |-> action, cardinality |-> cardinality]

ErrorLine == [level |-> "error", action |-> "", cardinality |-> None]

\* The lines BaseAgent.ask_ai logs: logger.error on every path but the
\* response text.
BaseAskAiLog(http) ==
    IF http.kind = "response" /\ http.status = 200 /\ http.body.kind = "json"
    THEN <<>>
    ELSE <<ErrorLine>>

\* How a pipeline call ran: how it ended, the gateway calls it made and the
\* lines it logged.
Ran(outcome, ai_calls, log) == [outcome |-> outcome, ai_calls |-> ai_calls, log |-> log]

\* The emails a caller hands to a pipeline: summaries get_recent_emails made.
EmailLists ==
    LET summaries == {extract_email_data(m).value : m \in WellFormedMessages}
    IN  UNION {[1..n -> summaries] : n \in 0..MaxMessages}

\* A mutant of summarize_emails: no guard on the empty list.
SummarizeEmailsUnguarded(emails, http) ==
    Ran(BaseAskAi(http), 1,
        BaseAskAiLog(http) \o <<LogAction("summarize_emails", Count(Len(emails)))>>)

\* GmailAgent.summarize_emails
summarize_emails(emails, http) ==
    IF emails = <<>>
    THEN Ran(Returned("No emails to summarize"), 0, <<>>)
    ELSE Ran(BaseAskAi(http), 1,
             BaseAskAiLog(http) \o <<LogAction("summarize_emails", Count(Len(emails)))>>)

\* GmailAgent.extract_action_items
extract_action_items(emails, http) ==
    IF emails = <<>>
    THEN Ran(Returned("No emails to analyze"), 0, <<>>)
    ELSE Ran(BaseAskAi(http), 1,
             BaseAskAiLog(http) \o <<LogAction("extract_action_items", Count(Len(emails)))>>)

\* The gateway calls and log lines of GmailAgent.draft_reply: the details of
\* its log_action line hold the subject, no count.
DraftReplyTrace(get_answer, http) ==
    IF get_answer.kind = "raise" \/ extract_email_data(get_answer.message).kind = "raised"
    THEN [ai_calls |-> 0, log |-> <<ErrorLine>>]
    ELSE [ai_calls |-> 1, log |-> BaseAskAiLog(http) \o <<LogAction("draft_reply", None)>>]

\* NotionAIAgent.summarize_database: the class has no logger.
summarize_database(answer, http) ==
    LET pages == get_database_pages(answer).value
    IN  IF pages = <<>>
        THEN Ran(Returned("No pages found in database"), 0, <<>>)
        ELSE Ran(NotionAskAi(http), 1, <<>>)

\* --------------------------------------------------------- Agent contract
\* The methods each class defines or inherits.
BaseAgentMethods == {"ask_ai", "test_connection", "log_action", "format_response"}

Methods(agent) ==
    CASE agent = "gmail" ->
            BaseAgentMethods \cup
            {"get_status", "get_recent_emails", "summarize_emails", "extract_action_items",
             "draft_reply", "search_emails", "get_unread_count", "interactive_mode"}
      [] agent = "spotify" ->
            BaseAgentMethods \cup
            {"get_status", "get_current_track", "search_tracks", "get_recommendations",
             "create_playlist", "add_tracks_to_playlist", "create_mood_playlist",
             "get_my_playlists", "play_track", "pause_playback", "resume_playback",
             "interactive_mode"}
      [] agent = "notion" ->
            {"test_notion_connection", "test_ollama_connection", "get_databases",
             "get_database_pages", "ask_ai", "ask_about_notion", "summarize_database",
             "interactive_mode"}

\* agent.method(...): AttributeError when the class has no such method.
Invoke(agent, method, outcome) ==
    IF method \in Methods(agent) THEN outcome ELSE Raised("AttributeError")

\* The connectivity test of each integration.
ConnectivityTest(agent) ==
    IF agent = "notion" THEN "test_notion_connection" ELSE "test_connection"

\* GmailAgent._test_service_connection (profile.get reads no key by index),
\* SpotifyAgent._test_service_connection (user['display_name']) and
\* NotionAIAgent.test_notion_connection (databases['results']).
test_service_connection(agent, answer) ==
    Try("Exception",
        IF agent = "gmail"
        THEN IF answer.kind = "raise" THEN Raised(answer.error) ELSE Returned(TRUE)
        ELSE ReadPayload(answer, TRUE),
        FALSE)

\* BaseAgent.test_connection wraps _test_service_connection in a second try;
\* NotionAIAgent.test_notion_connection is called as it is.
test_connection(agent, answer) ==
    IF agent = "notion"
    THEN test_service_connection(agent, answer)
    ELSE Try("Exception", test_service_connection(agent, answer), FALSE)

\* GmailAgent.get_status and SpotifyAgent.get_status.
get_status(agent, answer) ==
    LET body == IF agent = "gmail"
                THEN IF answer.kind = "raise" THEN Raised(answer.error)
                     ELSE Returned([status |-> "connected"])
                ELSE ReadPayload(answer, [status |-> "connected"])
    IN  Try("Exception", body,
            [status |-> "error", error |-> IF body.kind = "raised" THEN body.error ELSE ""])

\* ---------------------------------------------------------- the operations
\* What the music provider can answer to each primitive called on its own.
SpotifySearchAnswers ==
    ProviderRaises("spotify")
    \cup {[kind |-> "malformed"], [kind |-> "ok", items |-> <<>>], [kind |-> "ok", items |-> <<1>>]}

SpotifyRecAnswers ==
    ProviderRaises("spotify")
    \cup {[kind |-> "malformed"], [kind |-> "ok", tracks |-> <<>>], [kind |-> "ok", tracks |-> <<1, 2>>]}

SpotifyCreateAnswers ==
    ProviderRaises("spotify") \cup {[kind |-> "malformed"]}
    \cup {[kind |-> "ok", id |-> p] : p \in PlaylistIds}

SpotifyAddAnswers == ProviderRaises("spotify") \cup {[kind |-> "ok"]}

\* BaseAgent.ask_ai (on the mail and music agents) or NotionAIAgent.ask_ai is called.
AskAi ==
    \E agent \in Agents, http \in HttpOutcomes :
        /\ op' = [agent |-> agent, name |-> "ask_ai"]
        /\ env' = [http |-> http]
        /\ ret' = Invoke(agent, "ask_ai", IF agent = "notion" THEN NotionAskAi(http) ELSE BaseAskAi(http))
        /\ trace' = None
        /\ UNCHANGED <<synthVars, authVars>>

\* GmailAgent.get_recent_emails is called.
GetRecentEmails ==
    \E la \in ListAnswers : \E ga \in GetSequences(la) :
        /\ op' = [agent |-> "gmail", name |-> "get_recent_emails"]
        /\ env' = [list |-> la, gets |-> ga]
        /\ ret' = Invoke("gmail", "get_recent_emails", get_recent_emails(la, ga))
        /\ trace' = None
        /\ UNCHANGED <<synthVars, authVars>>

\* GmailAgent.search_emails is called.
SearchEmails ==
    \E la \in ListAnswers : \E ga \in GetSequences(la) :
        /\ op' = [agent |-> "gmail", name |-> "search_emails"]
        /\ env' = [list |-> la, gets |-> ga]
        /\ ret' = Invoke("gmail", "search_emails", search_emails(la, ga))
        /\ trace' = None
        /\ UNCHANGED <<synthVars, authVars>>

\* GmailAgent.get_unread_count is called.
GetUnreadCount ==
    \E la \in ListAnswers :
        /\ op' = [agent |-> "gmail", name |-> "get_unread_count"]
        /\ env' = [list |-> la]
        /\ ret' = Invoke("gmail", "get_unread_count", get_unread_count(la))
        /\ trace' = None
        /\ UNCHANGED <<synthVars, authVars>>

\* GmailAgent.draft_reply is called.
DraftReply ==
    \E ga \in GetAnswers, http \in HttpOutcomes :
        /\ op' = [agent |-> "gmail", name |-> "draft_reply"]
        /\ env' = [get |-> ga, http |-> http]
        /\ ret' = Invoke("gmail", "draft_reply", draft_reply(ga, http))
        /\ trace' = DraftReplyTrace(ga, http)
        /\ UNCHANGED <<synthVars, authVars>>

\* SpotifyAgent.search_tracks is called.
SearchTracks ==
    \E a \in SpotifySearchAnswers :
        /\ op' = [agent |-> "spotify", name |-> "search_tracks"]
        /\ env' = [answer |-> a]
        /\ ret' = Invoke("spotify", "search_tracks", search_tracks(a))
        /\ trace' = None
        /\ UNCHANGED <<synthVars, authVars>>

\* SpotifyAgent.get_recommendations is called.
GetRecommendations ==
    \E a \in SpotifyRecAnswers :
        /\ op' = [agent |-> "spotify", name |-> "get_recommendations"]
        /\ env' = [answer |-> a]
        /\ ret' = Invoke("spotify", "get_recommendations", get_recommendations(a))
        /\ trace' = None
        /\ UNCHANGED <<synthVars, authVars>>

\* SpotifyAgent.create_playlist is called.
CreatePlaylistOp ==
    \E a \in SpotifyCreateAnswers :
        /\ op' = [agent |-> "spotify", name |-> "create_playlist"]
        /\ env' = [answer |-> a]
        /\ ret' = Invoke("spotify", "create_playlist", create_playlist(a))
        /\ trace' = None
        /\ UNCHANGED <<synthVars, authVars>>

\* SpotifyAgent.add_tracks_to_playlist is called.
AddTracksToPlaylist ==
    \E a \in SpotifyAddAnswers :
        /\ op' = [agent |-> "spotify", name |-> "add_tracks_to_playlist"]
        /\ env' = [answer |-> a]
        /\ ret' = Invoke("spotify", "add_tracks_to_playlist", add_tracks_to_playlist(a))
        /\ trace' = None
        /\ UNCHANGED <<synthVars, authVars>>

\* NotionAIAgent.get_databases is called.
GetDatabases ==
    \E a \in ReadAnswers("notion") :
        /\ op' = [agent |-> "notion", name |-> "get_databases"]
        /\ env' = [answer |-> a]
        /\ ret' = Invoke("notion", "get_databases", get_databases(a))
        /\ trace' = None
        /\ UNCHANGED <<synthVars, authVars>>

\* NotionAIAgent.get_database_pages is called.
GetDatabasePages ==
    \E a \in PageAnswers :
        /\ op' = [agent |-> "notion", name |-> "get_database_pages"]
        /\ env' = [answer |-> a]
        /\ ret' = Invoke("notion", "get_database_pages", get_database_pages(a))
        /\ trace' = None
        /\ UNCHANGED <<synthVars, authVars>>

\* The connectivity test of an integration is called.
TestConnection ==
    \E agent \in Agents : \E a \in ReadAnswers(agent) :
        /\ op' = [agent |-> agent, name |-> ConnectivityTest(agent)]
        /\ env' = [answer |-> a]
        /\ ret' = Invoke(agent, ConnectivityTest(agent), test_connection(agent, a))
        /\ trace' = None
        /\ UNCHANGED <<synthVars, authVars>>

\* get_status is called on an integration.
GetStatus ==
    \E agent \in Agents : \E a \in ReadAnswers(agent) :
        /\ op' = [agent |-> agent, name |-> "get_status"]
        /\ env' = [answer |-> a]
        /\ ret' = Invoke(agent, "get_status", get_status(agent, a))
        /\ trace' = None
        /\ UNCHANGED <<synthVars, authVars>>

\* GmailAgent.summarize_emails is called.
SummarizeEmails ==
    \E emails \in EmailLists, http \in HttpOutcomes :
        LET run == summarize_emails(emails, http)
        IN  /\ op' = [agent |-> "gmail", name |-> "summarize_emails"]
            /\ env' = [records |-> emails, http |-> http]
            /\ ret' = Invoke("gmail", "summarize_emails", run.outcome)
            /\ trace' = [ai_calls |-> run.ai_calls, log |-> run.log]
            /\ UNCHANGED <<synthVars, authVars>>

\* GmailAgent.extract_action_items is called.
ExtractActionItems ==
    \E emails \in EmailLists, http \in HttpOutcomes :
        LET run == extract_action_items(emails, http)
        IN  /\ op' = [agent |-> "gmail", name |-> "extract_action_items"]
            /\ env' = [records |-> emails, http |-> http]
            /\ ret' = Invoke("gmail", "extract_action_items", run.outcome)
            /\ trace' = [ai_calls |-> run.ai_calls, log |-> run.log]
            /\ UNCHANGED <<synthVars, authVars>>

\* NotionAIAgent.summarize_database is called.
SummarizeDatabase ==
    \E a \in PageAnswers, http \in HttpOutcomes :
        LET run == summarize_database(a, http)
        IN  /\ op' = [agent |-> "notion", name |-> "summarize_database"]
            /\ env' = [records |-> get_database_pages(a).value, answer |-> a, http |-> http]
            /\ ret' = Invoke("notion", "summarize_database", run.outcome)
            /\ trace' = [ai_calls |-> run.ai_calls, log |-> run.log]
            /\ UNCHANGED <<synthVars, authVars>>

NextAgents ==
    \/ SummarizeEmails
    \/ ExtractActionItems
    \/ SummarizeDatabase
    \/ AskAi
    \/ GetRecentEmails
    \/ SearchEmails
    \/ GetUnreadCount
    \/ DraftReply
    \/ SearchTracks
    \/ GetRecommendations
    \/ CreatePlaylistOp
    \/ AddTracksToPlaylist
    \/ GetDatabases
    \/ GetDatabasePages
    \/ TestConnection
    \/ GetStatus

SpecAgents == Init /\ [][NextAgents]_vars

\* ------------------------------------------------- mail authentication
\* Credentials: the expiry of the access token, and whether a refresh token
\* comes with it.  "creds.expired": the expiry has passed; "creds.valid": a
\* token that has not expired.
Expired(c, t) == t >= c.expiry

Valid(c, t) == ~Expired(c, t)

Issued(t, refresh_token) == [expiry |-> t + TokenLife, refresh_token |-> refresh_token]

\* GmailAgent.__init__ -> _authenticate: the token file is loaded if it
\* exists; credentials that are not valid are refreshed when they are expired
\* and hold a refresh token, else the consent flow issues new ones (or the
\* credentials file is missing and FileNotFoundError is raised); the token
\* file is rewritten and the service is built.  A refresh that the provider
\* refuses raises out of the constructor: there is no agent then.
Authenticate ==
    /\ \E credentials_file \in BOOLEAN, refresh_ok \in BOOLEAN, granted \in BOOLEAN :
        LET loaded == token_file
        IN  IF loaded # None /\ Valid(loaded, now)
            THEN /\ creds' = loaded
                 /\ UNCHANGED <<token_file, refreshed_at>>
            ELSE IF loaded # None /\ Expired(loaded, now) /\ loaded.refresh_token
                 THEN /\ refreshed_at' = now
                      /\ IF refresh_ok
                         THEN /\ creds' = Issued(now, TRUE)
                              /\ token_file' = Issued(now, TRUE)
                         ELSE /\ creds' = None
                              /\ UNCHANGED token_file
                 ELSE /\ UNCHANGED refreshed_at
                      /\ IF credentials_file
                         THEN /\ creds' = Issued(now, granted)
                              /\ token_file' = Issued(now, granted)
                         ELSE /\ creds' = None
                              /\ UNCHANGED token_file
    /\ last_call' = None
    /\ UNCHANGED now
    /\ UNCHANGED <<synthVars, agentVars>>

\* A read operation of the agent calls the provider through self.service,
\* with the credentials the service was built with (get_recent_emails,
\* search_emails, get_unread_count: messages().list(...).execute()).
ReadCall ==
    /\ creds # None
    /\ last_call' = [at |-> now, expiry |-> creds.expiry, refreshed_at |-> refreshed_at]
    /\ UNCHANGED <<now, token_file, creds, refreshed_at>>
    /\ UNCHANGED <<synthVars, agentVars>>

\* Time passes.
Tick ==
    /\ now < MaxClock
    /\ now' = now + 1
    /\ UNCHANGED <<token_file, creds, refreshed_at, last_call>>
    /\ UNCHANGED <<synthVars, agentVars>>

NextAuth ==
    \/ Authenticate
    \/ ReadCall
    \/ Tick

SpecAuth == Init /\ [][NextAuth]_vars

\* ================================================================== claims
NoDuplicates(ids) == \A i, j \in 1..Len(ids) : ids[i] = ids[j] => i = j

HasField(r, f) == f \in DOMAIN r

\* C1: the track id list handed to add_tracks_to_playlist holds no id more
\* than once, also when two AI-suggested lines resolve to the same track.
C1_FinalTracksUnique == added # None => NoDuplicates(added.track_ids)

\* C2: when create_playlist returns a record without 'id', the run has
\* returned that record and add_tracks_to_playlist is not called; and
\* add_tracks_to_playlist is only called with the id create_playlist
\* returned in this run.
C2_AddOnlyAfterCreate ==
    /\ calls.create >= 1 /\ ~HasField(playlist, "id")
        => pc = "done" /\ result = playlist /\ calls.add = 0 /\ added = None
    /\ calls.add >= 1
        => /\ calls.create = 1
           /\ HasField(playlist, "id")
           /\ added.playlist_id = playlist.id
           /\ added.playlist_id \in PlaylistIds

C2_Witness ==
    pc = "done" /\ calls.create = 1 /\ ~HasField(playlist, "id") /\ calls.add = 0

\* C3 as stated: after a successful creation and a failed addition the
\* result carries the playlist's id and url and tracks_added = 0.
C3_TracksAddedZero ==
    added # None /\ ~added.ok
        => /\ HasField(result, "id") /\ HasField(result, "url")
           /\ result.tracks_added = 0

\* C3 amended: after a successful creation and a failed addition the result
\* carries the playlist's id and url, and tracks_added is the number of
\* tracks the run tried to add (the length of the truncated list).
C3_TracksAddedAttempted ==
    added # None /\ ~added.ok
        => /\ HasField(result, "id") /\ result.id = added.playlist_id
           /\ HasField(result, "url")
           /\ result.url = PlaylistUrl(result.id)
           /\ result.tracks_added = Len(added.track_ids)
           /\ result.tracks_added = Min2(limit, Len(track_ids))

C3_Witness ==
    /\ pc = "done" /\ added # None /\ ~added.ok
    /\ HasField(result, "tracks_added") /\ result.tracks_added > 0

\* C4: when Stage 1 and Stage 2 together yield no track id, the run returns
\* the 'No tracks found' error and calls neither create_playlist nor
\* add_tracks_to_playlist.
C4_NoTracksNoPlaylist ==
    track_ids = <<>>
        => /\ calls.create = 0 /\ calls.add = 0
           /\ playlist = None /\ added = None
           /\ pc = "done" => result = [status |-> "error", error |-> "No tracks found"]

C4_Witness ==
    pc = "done" /\ track_ids = <<>> /\ calls.search >= 1 /\ calls.recs = 1

\* C5: once Step 2 is decided, get_recommendations has been called zero
\* times when Stage 1 yielded 10 or more ids and exactly once when it yielded
\* fewer, whatever the requested limit; before that it has not been called.
C5_FallbackCallCount ==
    IF pc \in {"stage3", "add", "done"}
    THEN calls.recs = (IF Len(ai_track_ids) >= 10 THEN 0 ELSE 1)
    ELSE calls.recs = 0

C5_Witness ==
    pc = "done" /\ Len(ai_track_ids) >= 10 /\ limit > 10 /\ calls.recs = 0

\* C6: the list passed to add_tracks_to_playlist is no longer than the
\* requested limit, and tracks_added on the result never exceeds it.
C6_WithinLimit ==
    /\ added # None => Len(added.track_ids) <= limit
    /\ HasField(result, "tracks_added") => result.tracks_added <= limit

C6_Witness ==
    /\ added # None /\ limit > 0
    /\ Len(track_ids) > limit /\ Len(added.track_ids) = limit

\* C7: tracks_added on the result never exceeds the number of distinct track
\* ids Stage 1 and Stage 2 assembled.
C7_AddedWithinDistinct ==
    HasField(result, "tracks_added")
        => result.tracks_added <= Cardinality(Range(track_ids))

StatusText(st) ==
    CASE st = 201 -> <<"2", "0", "1">>
      [] st = 404 -> <<"4", "0", "4">>
      [] st = 500 -> <<"5", "0", "0">>

\* C8: ask_ai, of BaseAgent and of NotionAIAgent, always returns a string
\* and never raises: the response text on HTTP 200, a string holding the
\* status code on any other status, and 'AI Error: ...' on an exception.
C8_AskAiReturnsString ==
    op # None /\ op.name = "ask_ai"
        => /\ ret.kind = "returned"
           /\ ret.value \in Seq(STRING)
           /\ env.http.kind = "response" /\ env.http.status = 200
                /\ env.http.body.kind = "json"
                => ret.value = env.http.body.response
           /\ env.http.kind = "response" /\ env.http.status # 200
                => Contains(ret.value, StatusText(env.http.status))
           /\ env.http.kind = "exception"
                => StartsWith(ret.value, <<"A", "I", " ", "E", "r", "r", "o", "r", ":", " ">>)

C8_Witness ==
    /\ op # None /\ op.name = "ask_ai" /\ op.agent = "notion"
    /\ env.http.kind = "response" /\ env.http.status = 404
    /\ ret = Returned(<<"E", "r", "r", "o", "r", ":", " ", "4", "0", "4">>)

\* C9: no public operation lets a failure escape: get_recent_emails,
\* search_emails, get_unread_count, draft_reply, search_tracks,
\* get_recommendations, create_playlist, add_tracks_to_playlist,
\* get_databases and get_database_pages all end by returning a value.
C9_NoFailureEscapes ==
    op # None
    /\ op.name \in {"get_recent_emails", "search_emails", "get_unread_count", "draft_reply",
                    "search_tracks", "get_recommendations", "create_playlist",
                    "add_tracks_to_playlist", "get_databases", "get_database_pages"}
        => ret.kind = "returned"

\* C10: on each of the three integrations the connectivity test returns
\* false, without raising, when the provider call fails, and get_status
\* returns a record with status = error when the provider call fails.
C10_UniformContract ==
    /\ op # None /\ op.name = ConnectivityTest(op.agent) /\ env.answer.kind = "raise"
        => ret = Returned(FALSE)
    /\ op # None /\ op.name = "get_status" /\ env.answer.kind = "raise"
        => ret.kind = "returned" /\ ret.value.status = "error"

\* A line of the form the prompt asks for, '- "Song" by Artist': led by a
\* marker the parser strips, then a song, then ' by '.  The markers are the
\* two of the source: '-' and the three-character sequence.
WellFormedLine(l) ==
    LET t == Strip(l, {" ", "\t"})
        marked == t # <<>> /\ t[1] \in {"-", "U+201A"}
    IN  /\ marked
        /\ \E i \in 3..(Len(t) - 3) :
            /\ SubSeq(t, i, i + 3) = <<" ", "b", "y", " ">>
            /\ \E j \in 2..(i - 1) : t[j] \notin {" ", "\t", "-", "U+201A", "U+00C4", "U+00A2"}

\* The genres of the mood table for the moods of the model.
GenresOfMood(m) ==
    IF m = <<"C", "h", "i", "l", "l">> THEN <<"ambient", "jazz", "indie-folk">> ELSE <<"pop">>

\* C12: Stage 1 yields one id per well-formed line whose search has a hit and
\* skips every other line without error; when it yields k < 10 ids the genre
\* fallback is asked for limit - k tracks of the genres mapped from the mood,
\* looked up without regard to case, ['pop'] for a mood not in the table.
C12_StageOneYieldAndFallback ==
    /\ [](/\ pc = "parse" => track_ids = trail.hits
          /\ pc \in {"stage2", "stage3", "add", "done"} => ai_track_ids = trail.hits
          /\ rec_args # None
                => /\ Len(trail.hits) < 10
                   /\ rec_args.limit = limit - Len(trail.hits)
                   /\ rec_args.seed_genres = GenresOfMood(mood))
    /\ [][n_lines' = n_lines + 1
            => /\ pc' = "parse"
               /\ IF WellFormedLine(line')
                  THEN /\ calls.search' = calls.search + 1
                       /\ Len(trail.hits') - Len(trail.hits) \in {0, 1}
                       /\ Len(track_ids') - Len(track_ids) = Len(trail.hits') - Len(trail.hits)
                  ELSE /\ calls' = calls
                       /\ track_ids' = track_ids]_vars

C12_Witness ==
    /\ pc = "stage3" /\ mood = <<"C", "h", "i", "l", "l">> /\ limit = MinAiTracks + 1
    /\ calls.search = 3 /\ Len(ai_track_ids) = 2
    /\ rec_args = [seed_genres |-> <<"ambient", "jazz", "indie-folk">>, limit |-> MinAiTracks - 1]

\* C15: after a successful creation the result carries the created playlist's
\* id and, as tracks_added, the length of the truncated list handed to
\* add_tracks_to_playlist, whether that call returned True or False; the run
\* returns no error record.
C15_AttemptedCountRecorded ==
    added # None
        => /\ pc = "done"
           /\ result = playlist
           /\ HasField(result, "id") /\ result.id \in PlaylistIds
           /\ ~HasField(result, "status")
           /\ result.tracks_added = Len(added.track_ids)
           /\ added.track_ids = SubSeq(track_ids, 1, Min2(limit, Len(track_ids)))
           /\ added.ok = ("add" \notin trail.failed)

C15_Witness ==
    /\ added # None /\ ~added.ok /\ "add" \in trail.failed
    /\ result.id = "pl2" /\ result.tracks_added = MaxSmallLimit

\* C16 as stated: no remote call is retried, and a run of create_mood_playlist
\* in which a track search, the recommendation call or the add call failed
\* ends with a failure result.
C16_FailureEndsRun ==
    /\ calls.recs <= 1 /\ calls.create <= 1 /\ calls.add <= 1
    /\ pc = "done" /\ trail.failed \cap {"search", "recs", "add"} # {}
        => HasField(result, "status") /\ result.status = "error"

\* C16 amended: no remote call is retried and each primitive reports the
\* failure of its call as its failure value; a failed create_playlist ends the
\* run with its error record, while a failed search, recommendation call or
\* add call does not: such a run ends with a failure result only when no
\* track was found.
C16_FailureStaysInPrimitive ==
    /\ calls.ask_ai <= 1 /\ calls.recs <= 1 /\ calls.create <= 1 /\ calls.add <= 1
    /\ pc = "parse" => calls.search = n_qual /\ n_qual <= n_lines
    /\ calls.search >= Len(trail.hits) + (IF "search" \in trail.failed THEN 1 ELSE 0)
    /\ "recs" \in trail.failed /\ pc \in {"stage3", "add", "done"} => track_ids = ai_track_ids
    /\ "add" \in trail.failed => added # None /\ ~added.ok
    /\ "create" \in trail.failed
        => /\ pc = "done" /\ calls.add = 0
           /\ HasField(result, "status") /\ result.status = "error"
    /\ pc = "done" /\ "create" \notin trail.failed
        => IF track_ids = <<>>
           THEN result = [status |-> "error", error |-> "No tracks found"]
           ELSE HasField(result, "id") /\ ~HasField(result, "status")

C16_Witness ==
    /\ pc = "done" /\ trail.failed = {"search", "recs", "add"}
    /\ HasField(result, "id") /\ result.tracks_added >= 1

\* C17: in a run the gateway is called once and before any search; a search
\* is made for each qualifying line and for no other; the recommendation
\* primitive is called at most once and after the last search; create_playlist
\* is called at most once and after Stage 1 and Stage 2; add_tracks_to_playlist
\* is called at most once and after create_playlist returned an id.
C17_CallOrder ==
    /\ [](/\ calls.ask_ai <= 1 /\ calls.recs <= 1 /\ calls.create <= 1 /\ calls.add <= 1
          /\ pc \notin {"idle", "ask_ai"} => calls.ask_ai = 1
          /\ pc = "parse" => calls.search = n_qual)
    /\ [][/\ calls.ask_ai' # calls.ask_ai
                => calls.search = 0 /\ calls.recs = 0 /\ calls.create = 0 /\ calls.add = 0
          /\ n_lines' = n_lines + 1
                => calls.search' = calls.search + (IF WellFormedLine(line') THEN 1 ELSE 0)
          /\ calls.search' # calls.search
                => /\ n_lines' = n_lines + 1
                   /\ calls.ask_ai = 1 /\ calls.recs = 0 /\ calls.create = 0 /\ calls.add = 0
          /\ calls.recs' # calls.recs
                => /\ pc = "stage2" /\ line = None /\ calls.create = 0 /\ calls.add = 0
                   /\ calls.search' = calls.search
          /\ calls.create' # calls.create
                => /\ pc = "stage3" /\ calls.add = 0
                   /\ calls.search' = calls.search /\ calls.recs' = calls.recs
          /\ calls.add' # calls.add
                => /\ calls.create = 1 /\ HasField(playlist, "id") /\ playlist.id \in PlaylistIds
                   /\ calls.search' = calls.search /\ calls.recs' = calls.recs
                   /\ calls.create' = calls.create]_vars

C17_Witness ==
    /\ pc = "done"
    /\ calls = [ask_ai |-> 1, search |-> 3, recs |-> 1, create |-> 1, add |-> 1]

\* C18: whenever the genre fallback is invoked for a requested limit of at
\* least one, the number of recommendations it asks the provider for is at
\* least 1 and at most that limit.
C18_RequestedCountInRange ==
    rec_args # None /\ limit >= 1 => 1 <= rec_args.limit /\ rec_args.limit <= limit

\* The ids of recs that are not in seen, each once, in the order of recs.
NewInOrder(recs, seen) ==
    LET P == {i \in 1..Len(recs) :
                /\ recs[i] \notin Range(seen)
                /\ \A j \in 1..(i - 1) : recs[j] # recs[i]}
    IN  [k \in 1..Cardinality(P) |->
            recs[CHOOSE i \in P : Cardinality({j \in P : j <= i}) = k]]

\* The Stage 1 ids in line order, then the new Stage 2 ids in provider order.
Combined ==
    trail.hits
    \o (IF trail.recs = None THEN <<>> ELSE NewInOrder(trail.recs.tracks, trail.hits))

\* C19: the list handed to add_tracks_to_playlist is a prefix of the combined
\* list: the Stage 1 ids in the order of their lines, then the Stage 2 ids
\* not already present, in the order the provider returned them; Stage 2
\* leaves the Stage 1 ids where they are.
C19_OrderPreserved ==
    /\ pc \in {"stage3", "add", "done"}
        => /\ track_ids = Combined
           /\ SubSeq(track_ids, 1, Len(ai_track_ids)) = ai_track_ids
           /\ ai_track_ids = trail.hits
    /\ added # None
        => /\ Len(added.track_ids) = Min2(limit, Len(Combined))
           /\ added.track_ids = SubSeq(Combined, 1, Len(added.track_ids))

C19_Witness ==
    /\ added # None /\ Len(trail.hits) = 2 /\ trail.recs # None
    /\ \E i, j \in 1..Len(trail.recs.tracks) :
        /\ trail.recs.tracks[i] \in Range(trail.hits)
        /\ trail.recs.tracks[j] \notin Range(trail.hits)
        /\ i < j
    /\ Len(track_ids) = 3 /\ Len(added.track_ids) = 2

Pipelines == {"summarize_emails", "extract_action_items", "draft_reply", "summarize_database"}

\* The fixed answer of a pipeline that was handed no records.
NothingToDo(name) ==
    CASE name = "summarize_emails" -> "No emails to summarize"
      [] name = "extract_action_items" -> "No emails to analyze"
      [] name = "summarize_database" -> "No pages found in database"

\* C11: summarize_emails, extract_action_items and summarize_database, called
\* with no records (no emails handed in, no pages fetched), return their
\* fixed message and call the AI gateway zero times.
C11_EmptyInputSkipsGateway ==
    (/\ op # None
     /\ op.name \in {"summarize_emails", "extract_action_items", "summarize_database"}
     /\ env.records = <<>>)
        => ret = Returned(NothingToDo(op.name)) /\ trace.ai_calls = 0

C11_Witness ==
    /\ op # None /\ op.name = "summarize_emails" /\ env.records = <<>>
    /\ env.http.kind = "response" /\ env.http.status = 200
    /\ ret = Returned("No emails to summarize") /\ trace = [ai_calls |-> 0, log |-> <<>>]

\* C14: every summary get_recent_emails and search_emails return, made by
\* _extract_email_data, has a body of at most 500 characters, however long
\* the body of the provider's message is.
C14_BodyWithinLimit ==
    op # None /\ op.name \in {"get_recent_emails", "search_emails"} /\ ret.kind = "returned"
        => \A i \in 1..Len(ret.value) : Len(ret.value[i].body) <= 500

C14_Witness ==
    /\ op # None /\ op.name = "get_recent_emails" /\ ret.kind = "returned"
    /\ Len(ret.value) = 2
    /\ Len(env.gets[2].message.payload.body.data) > 500
    /\ Len(ret.value[2].body) = 500

\* C20: every call of an AI-assisted pipeline writes exactly one log line,
\* which names the action and holds a cardinality.
C20_OneLogLinePerCall ==
    op # None /\ op.name \in Pipelines
        => /\ Len(trace.log) = 1
           /\ trace.log[1].action = op.name
           /\ trace.log[1].cardinality # None

GatewayRefused == gateway # None /\ gateway.kind = "response" /\ gateway.status # 200

\* The string ask_ai returns for a status other than 200.
RefusalText(st) ==
    <<"A", "I", " ", "r", "e", "q", "u", "e", "s", "t", " ", "f", "a", "i", "l", "e", "d",
      " ", "w", "i", "t", "h", " ", "s", "t", "a", "t", "u", "s", " ">> \o StatusText(st)

\* What C21 and its amendment share: the failure string is read as the one
\* line of the answer, no search is made and Stage 1 yields nothing, the
\* fallback is asked for the full limit, and an empty recommendation result
\* ends the run with 'No tracks found' before any create_playlist call.
RefusalReadAsAnswer ==
    /\ pc = "parse" /\ n_lines >= 1 => n_lines = 1 /\ line = RefusalText(gateway.status)
    /\ calls.search = 0 /\ trail.hits = <<>> /\ ai_track_ids = <<>>
    /\ pc \in {"stage3", "add", "done"}
        => /\ calls.recs = 1
           /\ rec_args.limit = limit
           /\ track_ids = <<>> <=> trail.recs.tracks = <<>>
    /\ pc = "done" /\ trail.recs.tracks = <<>>
        => /\ result = [status |-> "error", error |-> "No tracks found"]
           /\ calls.create = 0

\* C21 as stated: when ask_ai returns its non-200 failure string the run
\* reads it as model output, makes no search, asks the fallback for the full
\* limit, and ends with a created playlist when recommendations came back
\* and with 'No tracks found' when none did.
C21_RefusalEndsByRecommendations ==
    GatewayRefused
        => /\ RefusalReadAsAnswer
           /\ pc = "done" /\ trail.recs.tracks # <<>>
                => HasField(result, "id") /\ result.id \in PlaylistIds

\* C21 amended: as above, but when recommendations came back the run goes on
\* to create_playlist and ends with the created playlist, or with the error
\* record of create_playlist when that call failed.
C21_RefusalEndsByRecommendationsOrCreate ==
    GatewayRefused
        => /\ RefusalReadAsAnswer
           /\ pc = "done" /\ trail.recs.tracks # <<>>
                => /\ calls.create = 1
                   /\ IF "create" \in trail.failed
                      THEN /\ ~HasField(result, "id") /\ result.status = "error"
                           /\ result.error # "No tracks found"
                           /\ calls.add = 0
                      ELSE /\ HasField(result, "id") /\ result.id \in PlaylistIds
                           /\ calls.add = 1

C21_Witness ==
    /\ pc = "done" /\ GatewayRefused /\ gateway.status = 500
    /\ calls.search = 0 /\ limit = MaxSmallLimit /\ rec_args.limit = MaxSmallLimit
    /\ HasField(result, "id") /\ result.tracks_added = MaxSmallLimit
====
